---- MODULE Spec2Model ----
(***************************************************************************)
(* stLearn plotting front-end (stlearn/plotting/classes.py) and the data   *)
(* loader (stlearn/datasets/datasets.py).                                  *)
(*                                                                         *)
(* State: the caller's annotated matrix `adata`, the plot object the last  *)
(* constructor call produced (`plot`, with the sequence of drawing calls   *)
(* it made on its figure), the caller's own argument objects (`caller`)    *)
(* and the dataset directory (`disk`).  Every constructor is one action:   *)
(* Python runs it sequentially, start to end or up to the exception.       *)
(*                                                                         *)
(* Python values: None is <<>> and a value v that may be None is <<v>>.    *)
(* A str is the sequence of its characters.  Rationals (means, centroids)  *)
(* are pairs <<numerator, denominator>>.                                   *)
(***************************************************************************)
EXTENDS Integers, Sequences, FiniteSets, TLC

VARIABLES adata, plot, caller, disk

vars == <<adata, plot, caller, disk>>

----------------------------------------------------------------------------
(* Bounds of the model *)

\* number of spots (rows of adata.obs)
NSpots == 3
\* longest list given as gene_symbols or list_clusters
MaxLen == 2
\* number of example_bcba calls followed
MaxCalls == 8

----------------------------------------------------------------------------
(* Generic helpers *)

None == <<>>
Some(v) == <<v>>

Range(s) == {s[i] : i \in 1..Len(s)}

SeqsUpTo(S, n) == UNION {[1..k -> S] : k \in 0..n}

RECURSIVE SumSeq(_)
SumSeq(s) == IF s = <<>> THEN 0 ELSE s[1] + SumSeq(Tail(s))

SetMin(S) == CHOOSE x \in S : \A y \in S : x <= y
SetMax(S) == CHOOSE x \in S : \A y \in S : x >= y

\* positions of s (ascending) whose element satisfies Test
Where(s, Test(_)) ==
  LET R[i \in 0..Len(s)] ==
        IF i = 0 THEN <<>>
        ELSE IF Test(s[i]) THEN Append(R[i - 1], i) ELSE R[i - 1]
  IN R[Len(s)]

\* s restricted to the positions in idx, in idx order
Take(s, idx) == [k \in 1..Len(idx) |-> s[idx[k]]]

----------------------------------------------------------------------------
(* The annotated matrix *)

\* the obs column holding the cluster labels, and the other obs columns
LabelCol == "louvain"
SubCol == "sub_cluster_labels"
ObsColumns(a) == {LabelCol, "imagecol", "imagerow"} \cup (IF a.has_sub THEN {SubCol} ELSE {})

\* cluster names, in pandas' category order (sorted)
CatUniverse == <<"0", "1", "2">>

\* gene names (var_names of adata) and the names a caller may ask for
gA == <<"A">>
gB == <<"B">>
gAB == <<"A", "B">>
gX == <<"X">>
gY == <<"Y">>
VarNames == {gA, gB, gAB}
AskNames == {gA, gAB, gX, gY}

\* obsm keys
kHet == <<"h", "e", "t">>
kH == <<"h">>
ObsmKeys == {kHet}

\* adata.obs[use_label].cat.categories: the labels in use, sorted
Categories(a) == SelectSeq(CatUniverse, LAMBDA c : c \in Range(a.obs_label))

\* Spatial.imagecol / Spatial.imagerow: spot pixel coordinates
imagecol(a) == [i \in 1..Len(a.spatial) |-> a.spatial[i][1] * a.scale_factor]
imagerow(a) == [i \in 1..Len(a.spatial) |-> a.spatial[i][2] * a.scale_factor]

----------------------------------------------------------------------------
(* Python argument values *)

\* gene_symbols: None, a str (v holds it), or a list of str (v is the list)
PyNone == [ty |-> "None", v |-> <<>>]
PyStr(cs) == [ty |-> "str", v |-> <<cs>>]
PyList(l) == [ty |-> "list", v |-> l]

\* an element of list_clusters: the str "n" or the int n
StrElem(n) == [ty |-> "str", n |-> n]
IntElem(n) == [ty |-> "int", n |-> n]
\* list_clusters: None, a list of elements, or one element that is not a list
PyScalar(e) == [ty |-> "scalar", v |-> <<e>>]

\* str(n) for the ints in use
IntStr(n) == CASE n = 0 -> "0" [] n = 1 -> "1" [] n = 2 -> "2"
\* numpy's astype(str) of one element of list_clusters
AsStr(e) == IntStr(e.n)

----------------------------------------------------------------------------
(* The object under construction.  `exc` is the exception that ended the   *)
(* constructor ("" while none was raised); `log` is the sequence of calls  *)
(* made on matplotlib (the figure's content) and on the file system;       *)
(* `adata` is the caller's matrix (self.adata[0]) and `adata0` what it was *)
(* when the constructor was entered.                                       *)

\* one call: x, y, c are the sequences passed; spots and cspots are the obs rows
\* the coordinates and the values were taken from
Ev(op) == [op |-> op, x |-> <<>>, y |-> <<>>, c |-> <<>>, label |-> <<>>,
           spots |-> <<>>, cspots |-> <<>>]

NewSelf(cls, args, a) ==
  [cls |-> cls, args |-> args, adata |-> a, adata0 |-> a,
   exc |-> "", log |-> <<>>, warnings |-> <<>>,
   title |-> None, query_adata |-> [spots |-> <<>>, cats |-> <<>>, raw |-> FALSE],
   has_use_label |-> FALSE, list_clusters |-> None, query_indexes |-> <<>>,
   cmap |-> None, cmap_n |-> 0, method |-> None,
   gene_symbols |-> PyNone, gs_alias |-> FALSE,
   gene_values |-> <<>>, available_ids |-> <<>>,
   xlim |-> None, ylim |-> None]

Raised(s) == s.exc # ""
Raise(s, e) == [s EXCEPT !.exc = e]
Draw(s, e) == [s EXCEPT !.log = Append(@, e)]
\* run the next statement unless an exception is already propagating
Then(s, Stmt(_)) == IF Raised(s) THEN s ELSE Stmt(s)

----------------------------------------------------------------------------
(* SpatialBasePlot *)

\* create_query (inside _select_clusters): the query text, as its tokens
RECURSIVE QueryText(_, _)
QueryText(list_cl, use_label) ==
  IF list_cl = <<>> THEN <<>>
  ELSE <<use_label, "==", list_cl[1], "|">> \o QueryText(Tail(list_cl), use_label)

\* create_query cutting one term too many off the end
create_query_short(list_cl, use_label) ==
  LET ini == QueryText(list_cl, use_label)
  IN IF Len(ini) <= 4 THEN ini ELSE SubSeq(ini, 1, Len(ini) - 5)

create_query(list_cl, use_label) ==
  LET ini == QueryText(list_cl, use_label)
  IN IF ini = <<>> THEN <<>> ELSE SubSeq(ini, 1, Len(ini) - 1)

\* pandas' DataFrame.query on a row whose `use_label` column holds `value`
QueryMatches(expr, value) ==
  \E k \in 0..(Len(expr) \div 4) :
     /\ 4 * k + 3 <= Len(expr)
     /\ expr[4 * k + 2] = "=="
     /\ expr[4 * k + 3] = value

_select_clusters(s) ==
  LET expr == create_query(s.list_clusters[1], LabelCol)
      q == s.query_adata
      keep == Where(q.spots, LAMBDA i : QueryMatches(expr, s.adata.obs_label[i]))
      spots == Take(q.spots, keep)
  IN IF expr = <<>> THEN Raise(s, "ValueError")
     ELSE [s EXCEPT !.query_adata =
             [q EXCEPT !.spots = spots,
                       \* the copy of a view drops the categories left unused
                       !.cats = SelectSeq(q.cats,
                                  LAMBDA c : \E k \in 1..Len(spots) :
                                                s.adata.obs_label[spots[k]] = c)]]

\* position (from 0) of the first category equal to `query`; <<>> when none
FirstIndex(full_labels, query) ==
  LET hits == Where(full_labels, LAMBDA c : c = query)
  IN IF hits = <<>> THEN None ELSE Some(hits[1] - 1)

\* _get_query_clusters_index taking the first category for a name it does not find
_get_query_clusters_index_lenient(s) ==
  LET full_labels == Categories(s.adata)
      lc == s.list_clusters[1]
      found == [k \in 1..Len(lc) |-> FirstIndex(full_labels, lc[k])]
  IN [s EXCEPT !.query_indexes =
        [k \in 1..Len(lc) |-> IF found[k] = None THEN 0 ELSE found[k][1]]]

_get_query_clusters_index(s) ==
  LET full_labels == Categories(s.adata)
      lc == s.list_clusters[1]
      found == [k \in 1..Len(lc) |-> FirstIndex(full_labels, lc[k])]
  IN IF \E k \in 1..Len(lc) : found[k] = None
     THEN Raise(s, "IndexError")
     ELSE [s EXCEPT !.query_indexes = [k \in 1..Len(lc) |-> found[k][1]]]

\* the colour maps the constructors accept
scanpy_cmap == {"vega_10_scanpy", "vega_20_scanpy", "default_102", "default_28"}
stlearn_cmap == {"jana_40", "default"}
cmap_available == {"Spectral_r", "jet"} \cup scanpy_cmap \cup stlearn_cmap

_generate_frame(s) == Draw(s, Ev("subplots"))
_remove_axis(s) == Draw(s, Ev("axis_off"))
_add_image(s) == Draw(s, Ev("imshow"))
_add_title(s) == Draw(s, [Ev("title") EXCEPT !.label = s.title])
_add_color_bar(s) == Draw(s, Ev("colorbar"))
_save_output(s) == Draw(s, [Ev("savefig") EXCEPT !.label = s.args.fname])

\* _crop_image with the margin taken off the window instead of added to it
_crop_image_inward(s, margin) ==
  LET cols == Range(imagecol(s.adata))
      rows == Range(imagerow(s.adata))
      xlim == <<SetMin(cols) + margin, SetMax(cols) - margin>>
      ylim == <<SetMin(rows) + margin, SetMax(rows) - margin>>
      s1 == Draw(s, [Ev("set_xlim") EXCEPT !.x = xlim])
      s2 == Draw(s1, [Ev("set_ylim") EXCEPT !.y = ylim])
      s3 == Draw(s2, [Ev("set_ylim") EXCEPT !.y = <<ylim[2], ylim[1]>>])
  IN [s3 EXCEPT !.xlim = Some(xlim), !.ylim = Some(<<ylim[2], ylim[1]>>)]

_crop_image(s, margin) ==
  LET cols == Range(imagecol(s.adata))
      rows == Range(imagerow(s.adata))
      xlim == <<SetMin(cols) - margin, SetMax(cols) + margin>>
      ylim == <<SetMin(rows) - margin, SetMax(rows) + margin>>
      s1 == Draw(s, [Ev("set_xlim") EXCEPT !.x = xlim])
      s2 == Draw(s1, [Ev("set_ylim") EXCEPT !.y = ylim])
      s3 == Draw(s2, [Ev("set_ylim") EXCEPT !.y = <<ylim[2], ylim[1]>>])
  IN [s3 EXCEPT !.xlim = Some(xlim), !.ylim = Some(<<ylim[2], ylim[1]>>)]

\* lines 73-96: the label checks and the selection of the clusters
BaseSelect(s) ==
  LET use_label == s.args.use_label
      lcArg == s.args.list_clusters
  IN IF lcArg.ty # "None" /\ use_label = None THEN Raise(s, "AssertionError")
     ELSE IF use_label = None THEN s
     ELSE IF use_label[1] \notin ObsColumns(s.adata) THEN Raise(s, "AssertionError")
     ELSE LET asList == IF lcArg.ty # "list" THEN <<lcArg.v[1]>> ELSE lcArg.v
              lc == IF lcArg.ty = "None" THEN Categories(s.adata)
                    ELSE [k \in 1..Len(asList) |-> AsStr(asList[k])]
              s1 == [s EXCEPT !.has_use_label = TRUE, !.list_clusters = Some(lc)]
          IN Then(_get_query_clusters_index(s1), _select_clusters)

SpatialBasePlot_init(s0) ==
  LET a == s0.adata
      args == s0.args
      s1 == [s0 EXCEPT !.title = args.title,
                       !.query_adata = [spots |-> [i \in 1..Len(a.obs_label) |-> i],
                                        cats |-> Categories(a), raw |-> FALSE]]
      s2 == IF ~args.use_raw THEN s1
            ELSE IF a.raw = None THEN Raise(s1, "AttributeError")
            ELSE [s1 EXCEPT !.query_adata.raw = TRUE]
      s3 == Then(s2, BaseSelect)
      s4 == Then(s3, LAMBDA s : IF args.cmap \notin cmap_available
                                 THEN Raise(s, "AssertionError")
                                 ELSE [s EXCEPT !.cmap = Some(args.cmap)])
      s5 == Then(s4, _generate_frame)
      s6 == Then(s5, LAMBDA s : IF ~args.show_axis THEN _remove_axis(s) ELSE s)
      s7 == Then(s6, LAMBDA s : IF args.show_image THEN _add_image(s) ELSE s)
  IN Then(s7, LAMBDA s : IF ~args.show_plot THEN Draw(s, Ev("close")) ELSE s)

----------------------------------------------------------------------------
(* GenePlot *)

method_available == {"CumSum", "NaiveMean"}

\* len(), [i] (from 0) and iteration of a str or a list: an item is a str
PyLen(g) == IF g.ty = "str" THEN Len(g.v[1]) ELSE Len(g.v)
PyItem(g, i) == IF g.ty = "str" THEN <<g.v[1][i + 1]>> ELSE g.v[i + 1]

\* ", ".join(names)
RECURSIVE Join(_)
Join(names) ==
  IF names = <<>> THEN <<>>
  ELSE IF Len(names) = 1 THEN names[1]
  ELSE names[1] \o <<",", " ">> \o Join(Tail(names))

\* var_names of query_adata, and one cell of its matrix
VarsOf(s) == IF s.query_adata.raw THEN DOMAIN s.adata.raw[1][1] ELSE DOMAIN s.adata.X[1]
Cell(s, spot, gene) ==
  IF s.query_adata.raw THEN s.adata.raw[1][spot][gene] ELSE s.adata.X[spot][gene]

\* list.pop() in place of list.remove(x): drops the last element
RemoveFirst_pop(l, x) == SubSeq(l, 1, Len(l) - 1)

\* list.remove(x): drop the first occurrence
RemoveFirst(l, x) ==
  LET i == CHOOSE k \in 1..Len(l) : l[k] = x /\ \A j \in 1..(k - 1) : l[j] # x
  IN SubSeq(l, 1, i - 1) \o SubSeq(l, i + 1, Len(l))

\* lines 306-313: `for gene in self.gene_symbols` over a list, the iterator
\* standing at position i (from 1) of the list as it is now
RECURSIVE FilterLoop(_, _, _, _)
FilterLoop(l, i, warned, names) ==
  IF i > Len(l) THEN [list |-> l, warnings |-> warned, exc |-> ""]
  ELSE IF l[i] \notin names
  THEN LET l2 == RemoveFirst(l, l[i])
           w2 == Append(warned, l[i])
       IN IF Len(l2) = 0 THEN [list |-> l2, warnings |-> w2, exc |-> "ValueError"]
          ELSE FilterLoop(l2, i + 1, w2, names)
  ELSE FilterLoop(l, i + 1, warned, names)

\* the values of the queried spots for the columns `cols`, combined by `method`
Combine(s, cols, method, n) ==
  LET q == s.query_adata.spots
      sum(spot) == SumSeq([k \in 1..Len(cols) |-> Cell(s, spot, cols[k])])
      npos(spot) == Cardinality({k \in 1..Len(cols) : Cell(s, spot, cols[k]) > 0})
  IN [k \in 1..Len(q) |->
        IF method = "NaiveMean" THEN <<sum(q[k]) * npos(q[k]), Len(cols) * n>>
        ELSE <<sum(q[k]), 1>>]

GenePlot_get_gene_expression(s) ==
  LET g == s.gene_symbols
      names == VarsOf(s)
  IN IF g.ty = "None" THEN Raise(s, "TypeError")
     ELSE IF PyLen(g) = 0 THEN Raise(s, "ValueError")
     ELSE IF PyLen(g) = 1
     THEN IF PyItem(g, 0) \notin names THEN Raise(s, "ValueError")
          ELSE [s EXCEPT !.gene_values = Combine(s, <<PyItem(g, 0)>>, "CumSum", 1)]
     ELSE IF g.ty = "str"
     THEN \* a str of several characters: the loop visits its characters
          IF \E k \in 0..(PyLen(g) - 1) : PyItem(g, k) \notin names
          THEN Raise(s, "AttributeError")
          ELSE IF g.v[1] \notin names THEN Raise(s, "KeyError")
          ELSE [s EXCEPT !.gene_values = Combine(s, g.v, s.method[1], PyLen(g))]
     ELSE LET r == FilterLoop(g.v, 1, <<>>, names)
              s1 == [s EXCEPT !.gene_symbols = PyList(r.list),
                              !.warnings = @ \o r.warnings]
          IN IF r.exc # "" THEN Raise(s1, r.exc)
             ELSE IF \E k \in 1..Len(r.list) : r.list[k] \notin names
             THEN Raise(s1, "KeyError")
             ELSE [s1 EXCEPT !.gene_values =
                               Combine(s1, r.list, s.method[1], Len(r.list))]

\* CciPlot._get_gene_expression: obsm[self.gene_symbols[0]]
CciPlot_get_gene_expression(s) ==
  LET g == s.gene_symbols
      q == s.query_adata.spots
  IN IF g.ty = "None" THEN Raise(s, "TypeError")
     ELSE IF PyLen(g) = 0 THEN Raise(s, "IndexError")
     ELSE IF PyItem(g, 0) \notin ObsmKeys THEN Raise(s, "KeyError")
     ELSE [s EXCEPT !.gene_values = [k \in 1..Len(q) |-> <<s.adata.het[q[k]], 1>>]]

_get_gene_expression(s) ==
  IF s.cls = "CciPlot" THEN CciPlot_get_gene_expression(s)
  ELSE GenePlot_get_gene_expression(s)

\* gene_values > threshold, one boolean per value
_add_threshold(gene_values, threshold) ==
  IF threshold = None THEN [k \in 1..Len(gene_values) |-> TRUE]
  ELSE [k \in 1..Len(gene_values) |->
          gene_values[k][1] > threshold[1] * gene_values[k][2]]

\* the pixel coordinates of every spot of query_adata
imgcol_new(s) ==
  [k \in 1..Len(s.query_adata.spots) |->
     s.adata.spatial[s.query_adata.spots[k]][1] * s.adata.scale_factor]
imgrow_new(s) ==
  [k \in 1..Len(s.query_adata.spots) |->
     s.adata.spatial[s.query_adata.spots[k]][2] * s.adata.scale_factor]

\* the call that receives the coordinates and the values
PointsCall(s, op, values, vspots) ==
  [Ev(op) EXCEPT !.x = imgcol_new(s), !.y = imgrow_new(s), !.c = values,
                 !.spots = s.query_adata.spots, !.cspots = vspots]

\* matplotlib's scatter refuses values that do not match the points
_plot_genes(s, values, vspots) ==
  IF values = <<>> THEN Raise(s, "ValueError")
  ELSE LET s1 == Draw(s, PointsCall(s, "scatter", values, vspots))
       IN IF Len(values) # Len(s.query_adata.spots) THEN Raise(s1, "ValueError") ELSE s1

\* scipy's griddata refuses values that do not match the points
_plot_contour(s, values, vspots) ==
  LET s1 == Draw(s, PointsCall(s, "griddata", values, vspots))
  IN IF Len(values) # Len(s.query_adata.spots) \/ values = <<>>
     THEN Raise(s1, "ValueError")
     ELSE Draw(s1, PointsCall(s, "contourf", values, vspots))

\* lines 257-263
GeneTitle(s) ==
  LET g == s.args.gene_symbols
  IN IF s.title # None THEN [s EXCEPT !.gene_symbols = g, !.gs_alias = (g.ty = "list")]
     ELSE IF g.ty = "str"
     THEN [s EXCEPT !.title = Some(g.v[1]), !.gene_symbols = PyList(<<g.v[1]>>)]
     ELSE IF g.ty = "None" THEN Raise(s, "TypeError")
     ELSE [s EXCEPT !.title = Some(Join(g.v)), !.gene_symbols = g, !.gs_alias = TRUE]

\* lines 269-276
GeneDraw(s) ==
  LET ids == _add_threshold(s.gene_values, s.args.threshold)
      keep == Where([k \in 1..Len(ids) |-> k], LAMBDA k : ids[k])
      values == Take(s.gene_values, keep)
      vspots == Take(s.query_adata.spots, keep)
      s1 == [s EXCEPT !.available_ids = ids]
  IN IF s.args.contour THEN _plot_contour(s1, values, vspots)
     ELSE _plot_genes(s1, values, vspots)

\* the same lines with the test of fname left out
Finish_always_saves(s0) ==
  LET args == s0.args
      s1 == IF args.crop THEN _crop_image(s0, args.margin) ELSE s0
  IN _save_output(s1)

\* lines 278-285 (and the same lines of the other classes)
Finish(s0) ==
  LET args == s0.args
      s1 == IF args.crop THEN _crop_image(s0, args.margin) ELSE s0
  IN IF args.fname # None THEN _save_output(s1) ELSE s1

GenePlot_init(s0) ==
  LET args == s0.args
      s1 == SpatialBasePlot_init(s0)
      s2 == Then(s1, LAMBDA s : IF args.method \notin method_available
                                 THEN Raise(s, "AssertionError")
                                 ELSE [s EXCEPT !.method = Some(args.method)])
      s3 == Then(s2, GeneTitle)
      s4 == Then(s3, _add_title)
      s5 == Then(s4, _get_gene_expression)
      s6 == Then(s5, GeneDraw)
      s7 == Then(s6, LAMBDA s : IF args.show_color_bar THEN _add_color_bar(s) ELSE s)
  IN Then(s7, Finish)

----------------------------------------------------------------------------
(* ClusterPlot *)

\* _get_cmap: the number of colours of the map (self.cmap_n)
_get_cmap_n(cmap) ==
  CASE cmap = "vega_10_scanpy" -> 10
    [] cmap = "vega_20_scanpy" -> 20
    [] cmap = "default_102" -> 102
    [] cmap = "default_28" -> 28
    [] cmap = "jana_40" -> 40
    [] cmap = "default" -> 20
    [] OTHER -> 256

\* self.cmap_(num / den): the colour of the map at that fraction
cmap_(s, num, den) == [cmap |-> s.cmap[1], num |-> num, den |-> den]
\* matplotlib.colors.to_hex
to_hex(colour) == [hex |-> colour]

\* the rows of query_adata (positions in adata) whose label is `name`
RowsOf(s, name) ==
  Take(s.query_adata.spots,
       Where(s.query_adata.spots, LAMBDA i : s.adata.obs_label[i] = name))

XOf(s, rows) == [k \in 1..Len(rows) |-> s.adata.spatial[rows[k]][1] * s.adata.scale_factor]
YOf(s, rows) == [k \in 1..Len(rows) |-> s.adata.spatial[rows[k]][2] * s.adata.scale_factor]

_add_cluster_colors(s) ==
  IF ~s.has_use_label THEN Raise(s, "AttributeError")
  ELSE LET groups == Categories(s.adata)
       IN [s EXCEPT !.adata.uns_colors =
             Some([k \in 1..Len(groups) |-> to_hex(cmap_(s, k - 1, s.cmap_n - 1))])]

\* the scatter call of the i-th group (i from 0) of query_adata.obs.groupby
ClusterScatter(s, i, name) ==
  LET rows == RowsOf(s, name)
  IN [Ev("scatter") EXCEPT !.x = XOf(s, rows), !.y = YOf(s, rows), !.spots = rows,
                           !.c = <<cmap_(s, s.query_indexes[i + 1], s.cmap_n - 1)>>,
                           !.label = name]

RECURSIVE PlotGroups(_, _)
PlotGroups(s, i) ==
  IF i >= Len(s.query_adata.cats) THEN s
  ELSE IF i >= Len(s.query_indexes) THEN Raise(s, "IndexError")
  ELSE PlotGroups(Draw(s, ClusterScatter(s, i, s.query_adata.cats[i + 1])), i + 1)

_plot_clusters(s) == PlotGroups(s, 0)

_add_cluster_bar(s) == Draw(s, Ev("legend"))

\* centroidpython(x, y): the mean of each coordinate, as <<sum, count>> pairs
centroidpython(xs, ys) == <<<<SumSeq(xs), Len(xs)>>, <<SumSeq(ys), Len(ys)>>>>

\* a text box at the centroid moved by (dx, dy)
TextAt(centroid, dx, dy, label, colour) ==
  [Ev("text") EXCEPT !.x = <<centroid[1][1] + dx * centroid[1][2], centroid[1][2]>>,
                     !.y = <<centroid[2][1] + dy * centroid[2][2], centroid[2][2]>>,
                     !.label = label, !.c = <<colour>>]

\* centroid x < limit
LeftOf(centroid, limit) == centroid[1][1] < limit * centroid[1][2]

\* one pass of the loop of _add_cluster_labels, for list_clusters[i] (i from 0)
ClusterLabel(s, i) ==
  LET label == s.list_clusters[1][i + 1]
      rows == RowsOf(s, label)
      centroid == centroidpython(XOf(s, rows), YOf(s, rows))
      left == LeftOf(centroid, 1500)
      colors == s.adata.uns_colors[1]
      index == s.query_indexes[i + 1]
  IN IF Len(s.query_adata.cats) >= 2 THEN Raise(s, "NameError")
     ELSE IF rows = <<>> THEN Raise(s, "ZeroDivisionError")
     ELSE Draw(s, TextAt(centroid, IF left THEN -100 ELSE 100,
                         IF left THEN 50 ELSE -50, label, colors[index + 1]))

RECURSIVE LabelLoop(_, _)
LabelLoop(s, i) ==
  IF Raised(s) \/ i >= Len(s.list_clusters[1]) THEN s
  ELSE LabelLoop(ClusterLabel(s, i), i + 1)

_add_cluster_labels(s) == LabelLoop(s, 0)

\* the elements of a set of numbers, ascending
RECURSIVE SortedSeq(_)
SortedSeq(S) == IF S = {} THEN <<>> ELSE <<SetMin(S)>> \o SortedSeq(S \ {SetMin(S)})

\* NearestCentroid.fit(points of rows, their sub-cluster labels): classes_ and centroids_
FitClasses(s, rows) == SortedSeq({s.adata.obs_sub[rows[k]] : k \in 1..Len(rows)})
FitCentroids(s, rows) ==
  LET classes == FitClasses(s, rows)
  IN [j \in 1..Len(classes) |->
        LET mine == Take(rows, Where(rows, LAMBDA r : s.adata.obs_sub[r] = classes[j]))
        IN centroidpython(XOf(s, mine), YOf(s, mine))]

\* lines 651-680: the labels of one cluster (i from 0), class j (from 0) onwards
RECURSIVE SubLabels(_, _, _, _, _)
SubLabels(s, i, j, classes, centroids) ==
  IF Raised(s) \/ j >= Len(classes) THEN s
  ELSE LET label == classes[j + 1]
           q == s.query_adata.spots
           n == Cardinality({k \in 1..Len(q) : s.adata.obs_sub[q[k]] = label})
           left == LeftOf(centroids[i + 1], 1500)
           colors == s.adata.uns_colors[1]
           index == s.query_indexes[i + 1]
           s1 == IF n <= s.args.threshold_spots THEN s
                 ELSE IF i >= Len(centroids) \/ j >= Len(centroids)
                 THEN Raise(s, "IndexError")
                 ELSE Draw(s, TextAt(centroids[j + 1], IF left THEN -100 ELSE 100,
                                     IF left THEN 50 ELSE -50, label, colors[index + 1]))
       IN SubLabels(s1, i, j + 1, classes, centroids)

\* lines 613-680: cluster i (from 0) onwards; `classes` is the local variable of
\* that name, None while it was never assigned
RECURSIVE SubClusterLoop(_, _, _)
SubClusterLoop(s, i, classes) ==
  IF Raised(s) \/ i >= Len(s.list_clusters[1]) THEN s
  ELSE LET rows == RowsOf(s, s.list_clusters[1][i + 1])
           fitted == Len(FitClasses(s, rows)) >= 2
           centroids == IF fitted THEN FitCentroids(s, rows)
                        ELSE <<centroidpython(XOf(s, rows), YOf(s, rows))>>
           classes2 == IF fitted THEN Some(FitClasses(s, rows)) ELSE classes
       IN IF ~fitted /\ rows = <<>> THEN Raise(s, "ZeroDivisionError")
          ELSE IF classes2 = None THEN Raise(s, "NameError")
          ELSE SubClusterLoop(SubLabels(s, i, 0, classes2[1], centroids), i + 1, classes2)

_add_sub_clusters(s) ==
  IF SubCol \notin ObsColumns(s.adata) THEN Raise(s, "ValueError")
  ELSE SubClusterLoop(s, 0, None)

\* uns["PTS_graph"]: "absent", "empty" (no node) or "graph"
_add_trajectories(s) ==
  IF s.adata.uns_pts = "absent" THEN Raise(s, "KeyError")
  ELSE IF s.adata.uns_pts = "empty" THEN Raise(s, "ValueError")
  ELSE LET s1 == Draw(s, [Ev("edges") EXCEPT !.label = s.args.reverse])
       IN IF s.args.show_node THEN Raise(s1, "NameError") ELSE s1

ClusterPlot_init(s0) ==
  LET args == s0.args
      s1 == SpatialBasePlot_init(s0)
      s2 == Then(s1, LAMBDA s : [s EXCEPT !.cmap_n = _get_cmap_n(s.cmap[1])])
      s3 == Then(s2, _add_cluster_colors)
      s4 == Then(s3, _plot_clusters)
      s5 == Then(s4, LAMBDA s : IF args.show_color_bar THEN _add_cluster_bar(s) ELSE s)
      s6 == Then(s5, LAMBDA s : IF args.show_cluster_labels THEN _add_cluster_labels(s) ELSE s)
      s7 == Then(s6, LAMBDA s : IF args.show_subcluster THEN _add_sub_clusters(s) ELSE s)
      s8 == Then(s7, LAMBDA s : IF args.show_trajectories THEN _add_trajectories(s) ELSE s)
  IN Then(s8, Finish)

----------------------------------------------------------------------------
(* SubClusterPlot *)

\* the rows of adata (not of query_adata) whose label is str(self.cluster)
ClusterRows(s) ==
  LET all == [i \in 1..Len(s.adata.obs_label) |-> i]
  IN Take(all, Where(all, LAMBDA i : s.adata.obs_label[i] = IntStr(s.args.cluster)))

\* colors.replace(self.mapping): the rank (from 0) of each row's sub-cluster label
_plot_subclusters(s) ==
  IF ~s.has_use_label THEN Raise(s, "AttributeError")
  ELSE IF SubCol \notin ObsColumns(s.adata) THEN Raise(s, "KeyError")
  ELSE LET rows == ClusterRows(s)
           keys == FitClasses(s, rows)
           rank(v) == (CHOOSE k \in 1..Len(keys) : keys[k] = v) - 1
       IN Draw(s, [Ev("scatter") EXCEPT
                     !.x = XOf(s, rows), !.y = YOf(s, rows), !.spots = rows,
                     !.c = [k \in 1..Len(rows) |-> rank(s.adata.obs_sub[rows[k]])],
                     !.cspots = rows])

RECURSIVE SubTexts(_, _, _, _)
SubTexts(s, i, classes, centroids) ==
  IF i >= Len(classes) THEN s
  ELSE LET left == LeftOf(centroids[i + 1], 1000)
       IN SubTexts(Draw(s, TextAt(centroids[i + 1], IF left THEN -100 ELSE 100,
                                  IF left THEN 100 ELSE -100, classes[i + 1],
                                  [rank |-> i, of |-> Len(classes)])),
                   i + 1, classes, centroids)

\* one_arg: whether centroidpython accepts the single argument of line 855
_add_subclusters_label(s, one_arg) ==
  LET rows == ClusterRows(s)
      classes == FitClasses(s, rows)
  IN IF Len(classes) >= 2 THEN SubTexts(s, 0, classes, FitCentroids(s, rows))
     ELSE IF ~one_arg THEN Raise(s, "TypeError")
     ELSE IF rows = <<>> THEN Raise(s, "ZeroDivisionError")
     ELSE SubTexts(s, 0, classes, <<centroidpython(XOf(s, rows), YOf(s, rows))>>)

SubClusterPlot_init(s0, one_arg) ==
  LET s1 == SpatialBasePlot_init(s0)
      s2 == Then(s1, _plot_subclusters)
      s3 == Then(s2, LAMBDA s : _add_subclusters_label(s, one_arg))
  IN Then(s3, Finish)

----------------------------------------------------------------------------
(* CciPlot *)

\* lines 948-971: GenePlot's constructor with gene_symbols = use_het and
\* GenePlot's defaults for threshold and method
CciPlot_init(s0) ==
  GenePlot_init([s0 EXCEPT !.args.gene_symbols = s0.args.use_het,
                           !.args.threshold = None,
                           !.args.method = "CumSum"])

----------------------------------------------------------------------------
(* example_bcba *)

\* example_bcba without the test `if not filename.is_file()`
example_bcba_no_cache(d, net_ok) ==
  [dir |-> TRUE,
   file |-> net_ok,
   calls |-> d.calls + 1,
   downloads |-> d.downloads + 1,
   last |-> [file_before |-> d.file,
             downloaded |-> TRUE,
             result |-> IF net_ok THEN "adata" ELSE "error",
             read_from |-> IF net_ok THEN "example_bcba.h5" ELSE "nothing"]]

\* net_ok: whether the HTTP download succeeds.  A failed download leaves no file.
example_bcba(d, net_ok) ==
  LET absent == ~d.file
      failed == absent /\ ~net_ok
  IN [dir |-> TRUE,
      file |-> d.file \/ (absent /\ net_ok),
      calls |-> d.calls + 1,
      downloads |-> d.downloads + (IF absent THEN 1 ELSE 0),
      last |-> [file_before |-> d.file,
                downloaded |-> absent,
                result |-> IF failed THEN "error" ELSE "adata",
                read_from |-> IF failed THEN "nothing" ELSE "example_bcba.h5"]]

----------------------------------------------------------------------------
(* Data sets and arguments *)

Coords == <<<<600, 900>>, <<1400, 1600>>, <<1600, 700>>>>
Rows == <<[g \in VarNames |-> 0],
          [g \in VarNames |-> CASE g = gA -> 1 [] g = gB -> 2 [] OTHER -> 0],
          [g \in VarNames |-> CASE g = gA -> 2 [] g = gB -> 0 [] OTHER -> 3]>>
RawRow(row) == [g \in VarNames \cup {gX} |-> IF g = gX THEN 1 ELSE row[g] + 1]

Cycle(s, i) == s[((i - 1) % Len(s)) + 1]

BaseX == [i \in 1..NSpots |-> Cycle(Rows, i)]
RawOf(X) == [i \in 1..Len(X) |-> RawRow(X[i])]

BaseData ==
  [obs_label |-> [i \in 1..NSpots |-> Cycle(CatUniverse, i)],
   obs_sub |-> [i \in 1..NSpots |-> i % 2],
   has_sub |-> TRUE,
   spatial |-> [i \in 1..NSpots |-> Cycle(Coords, i)],
   het |-> [i \in 1..NSpots |-> i % 3],
   X |-> BaseX,
   raw |-> Some(RawOf(BaseX)),
   uns_colors |-> None,
   uns_pts |-> "graph",
   scale_factor |-> 1]

CoordData ==
  {[BaseData EXCEPT !.spatial = sp, !.scale_factor = k] :
     sp \in [1..NSpots -> {Coords[1], Coords[3]}], k \in {1, 2}}
MiscData ==
  {[BaseData EXCEPT !.has_sub = h, !.uns_pts = p, !.raw = r] :
     h \in BOOLEAN, p \in {"absent", "empty", "graph"}, r \in {None, BaseData.raw}}
LabelData ==
  {[BaseData EXCEPT !.obs_label = l, !.raw = r] :
     l \in [1..NSpots -> Range(CatUniverse)], r \in {None, BaseData.raw}}
GeneData ==
  {[BaseData EXCEPT !.X = x, !.raw = Some(RawOf(x))] : x \in [1..NSpots -> Range(Rows)]}

DefaultArgs ==
  [title |-> None, cmap |-> "Spectral_r", use_label |-> None, list_clusters |-> PyNone,
   show_plot |-> TRUE, show_axis |-> FALSE, show_image |-> TRUE, show_color_bar |-> TRUE,
   crop |-> TRUE, margin |-> 100, use_raw |-> FALSE, fname |-> None,
   gene_symbols |-> PyNone, threshold |-> None, method |-> "CumSum", contour |-> FALSE,
   show_subcluster |-> FALSE, show_cluster_labels |-> FALSE, show_trajectories |-> FALSE,
   reverse |-> FALSE, show_node |-> FALSE, threshold_spots |-> 5,
   cluster |-> 0, use_het |-> PyStr(kHet)]

Titles == {None, Some(<<"t">>)}
Fnames == {None, Some("out.png")}
Margins == {0, 100}
UseLabels == {None, Some(LabelCol), Some("bogus")}
Cmaps == {"Spectral_r", "vega_10_scanpy", "bogus"}

ClusterElems == {StrElem(0), StrElem(1), StrElem(2), IntElem(1)}
ClusterLists ==
  {PyNone} \cup {PyScalar(e) : e \in ClusterElems}
           \cup {PyList(l) : l \in SeqsUpTo(ClusterElems, MaxLen)}
GeneLists ==
  {PyNone} \cup {PyStr(n) : n \in AskNames}
           \cup {PyList(l) : l \in SeqsUpTo(AskNames, MaxLen)}

\* the switches of the base class, every combination
FlagArgs(base) ==
  {[base EXCEPT !.show_plot = sp, !.show_axis = sa, !.show_image = si,
                       !.show_color_bar = sc, !.crop = cr, !.margin = mg, !.fname = fn] :
     sp \in BOOLEAN, sa \in BOOLEAN, si \in BOOLEAN, sc \in BOOLEAN, cr \in BOOLEAN,
     mg \in Margins, fn \in Fnames}
\* the validated arguments, every combination
CheckedArgs(base) ==
  {[base EXCEPT !.use_label = ul, !.list_clusters = lc, !.cmap = cm,
                       !.show_image = si, !.fname = fn] :
     ul \in UseLabels, lc \in {PyNone, PyList(<<StrElem(0)>>), PyList(<<StrElem(2), StrElem(0)>>)},
     cm \in Cmaps, si \in BOOLEAN, fn \in Fnames}

Labelled == [DefaultArgs EXCEPT !.use_label = Some(LabelCol)]

\* arguments of the four constructors under Spec: the switches, the checks,
\* and the steps of each class
GeneArgs ==
  {[a EXCEPT !.gene_symbols = PyList(<<gA>>)] : a \in FlagArgs(DefaultArgs)}
  \cup {[a EXCEPT !.gene_symbols = PyList(<<gA>>), !.method = m] :
          a \in CheckedArgs(DefaultArgs), m \in {"CumSum", "bogus"}}
  \cup {[DefaultArgs EXCEPT !.gene_symbols = g, !.contour = co, !.fname = fn,
                            !.threshold = th] :
          g \in {PyList(<<gA>>), PyList(<<gA, gX>>), PyList(<<gX, gA>>), PyList(<<gX, gY>>)},
          co \in BOOLEAN, fn \in Fnames, th \in {None, Some(1)}}
ClusterArgs ==
  FlagArgs([Labelled EXCEPT !.list_clusters = PyList(<<StrElem(0)>>)])
  \cup CheckedArgs(DefaultArgs)
  \cup {[Labelled EXCEPT !.show_cluster_labels = cl, !.show_subcluster = su,
                         !.show_trajectories = tr, !.show_node = sn,
                         !.threshold_spots = 0, !.fname = fn] :
          cl \in BOOLEAN, su \in BOOLEAN, tr \in BOOLEAN, sn \in BOOLEAN, fn \in Fnames}
SubClusterArgs ==
  FlagArgs(Labelled) \cup CheckedArgs(DefaultArgs)
  \cup {[Labelled EXCEPT !.cluster = c, !.fname = fn] : c \in 0..2, fn \in Fnames}
CciArgs ==
  FlagArgs(DefaultArgs) \cup CheckedArgs(DefaultArgs)
  \cup {[DefaultArgs EXCEPT !.use_het = h, !.contour = co, !.fname = fn] :
          h \in {PyStr(kHet), PyStr(kH)}, co \in BOOLEAN, fn \in Fnames}

\* arguments under SpecGene: every way of naming genes
GeneArgsWide ==
  {[DefaultArgs EXCEPT !.title = ti, !.gene_symbols = g, !.threshold = th, !.method = m,
                       !.contour = co, !.use_raw = ur] :
     ti \in Titles, g \in GeneLists, th \in {None, Some(0), Some(1)},
     m \in method_available, co \in BOOLEAN, ur \in BOOLEAN}
CciArgsWide ==
  {[DefaultArgs EXCEPT !.title = ti, !.use_het = h, !.contour = co] :
     ti \in Titles, h \in {PyStr(kHet), PyStr(kH), PyNone}, co \in BOOLEAN}

\* arguments under SpecCluster: every way of naming clusters
ClusterArgsWide ==
  {[Labelled EXCEPT !.list_clusters = lc, !.cmap = cm, !.show_cluster_labels = cl,
                    !.show_subcluster = su, !.threshold_spots = ts] :
     lc \in ClusterLists, cm \in {"default", "Spectral_r"}, cl \in BOOLEAN,
     su \in BOOLEAN, ts \in {0, 1}}
GeneArgsLabelled ==
  {[Labelled EXCEPT !.list_clusters = lc, !.use_raw = ur, !.gene_symbols = PyList(<<gA>>)] :
     lc \in ClusterLists, ur \in BOOLEAN}

----------------------------------------------------------------------------
(* The state machine *)

NoCaller == [gene_symbols |-> PyNone, list_clusters |-> PyNone]
NoDisk ==
  [dir |-> FALSE, file |-> FALSE, calls |-> 0, downloads |-> 0,
   last |-> [file_before |-> FALSE, downloaded |-> FALSE, result |-> "none",
             read_from |-> "nothing"]]

InitOn(D) ==
  /\ adata \in D
  /\ plot = None
  /\ caller = NoCaller
  /\ disk = NoDisk

\* the constructor returned or raised: s is the object as it was left
Constructed(s) ==
  /\ plot' = Some(s)
  /\ adata' = s.adata
  /\ caller' = [gene_symbols |-> IF s.gs_alias THEN s.gene_symbols ELSE s.args.gene_symbols,
                list_clusters |-> s.args.list_clusters]
  /\ UNCHANGED disk

NewGenePlot(A) ==
  /\ plot = None
  /\ \E args \in A : Constructed(GenePlot_init(NewSelf("GenePlot", args, adata)))

NewClusterPlot(A) ==
  /\ plot = None
  /\ \E args \in A : Constructed(ClusterPlot_init(NewSelf("ClusterPlot", args, adata)))

NewSubClusterPlot(A) ==
  /\ plot = None
  /\ \E args \in A, one_arg \in BOOLEAN :
        Constructed(SubClusterPlot_init(NewSelf("SubClusterPlot", args, adata), one_arg))

NewCciPlot(A) ==
  /\ plot = None
  /\ \E args \in A : Constructed(CciPlot_init(NewSelf("CciPlot", args, adata)))

\* the caller drops the plot object and its arguments
Discard ==
  /\ plot # None
  /\ plot' = None
  /\ caller' = NoCaller
  /\ UNCHANGED <<adata, disk>>

CallExampleBcba ==
  /\ disk.calls < MaxCalls
  /\ \E net_ok \in BOOLEAN : disk' = example_bcba(disk, net_ok)
  /\ UNCHANGED <<adata, plot, caller>>

\* somebody clears the dataset directory
RemoveFile ==
  /\ disk.file
  /\ disk' = [disk EXCEPT !.file = FALSE]
  /\ UNCHANGED <<adata, plot, caller>>

Init == InitOn(CoordData \cup MiscData)
Next ==
  \/ NewGenePlot(GeneArgs)
  \/ NewClusterPlot(ClusterArgs)
  \/ NewSubClusterPlot(SubClusterArgs)
  \/ NewCciPlot(CciArgs)
  \/ Discard
Spec == Init /\ [][Next]_vars

InitGene == InitOn(GeneData)
NextGene ==
  \/ NewGenePlot(GeneArgsWide)
  \/ NewCciPlot(CciArgsWide)
  \/ Discard
SpecGene == InitGene /\ [][NextGene]_vars

InitCluster == InitOn(LabelData)
NextCluster ==
  \/ NewClusterPlot(ClusterArgsWide)
  \/ NewGenePlot(GeneArgsLabelled)
  \/ Discard
SpecCluster == InitCluster /\ [][NextCluster]_vars

InitData == InitOn({BaseData})
NextData ==
  \/ CallExampleBcba
  \/ RemoveFile
SpecData == InitData /\ [][NextData]_vars

----------------------------------------------------------------------------
(* Properties *)

Built == plot # None
obj == plot[1]
Completed == Built /\ obj.exc = ""

Ops(s) == [k \in 1..Len(s.log) |-> s.log[k].op]
CountOp(s, op) == Cardinality({k \in 1..Len(s.log) : s.log[k].op = op})

\* position (from 0) of category c in the full category list of the label
CatPos(a, c) == (CHOOSE k \in 1..Len(Categories(a)) : Categories(a)[k] = c) - 1

\* list_clusters is None or names distinct categories of the label, in any order
NamesCategories(a, lc) ==
  \/ lc.ty = "None"
  \/ /\ \A k \in 1..Len(lc.v) : AsStr(lc.v[k]) \in Range(Categories(a))
     /\ \A j, k \in 1..Len(lc.v) : j # k => AsStr(lc.v[j]) # AsStr(lc.v[k])

\* C1: in a ClusterPlot whose list_clusters names categories of the label (any
\* subset, any order), the points of every drawn cluster c have the palette
\* colour at the position of c in the full category list, which is the colour
\* _add_cluster_colors stored for c in adata.uns[use_label + "_colors"].
C1_ColourOfCluster ==
  (Built /\ obj.cls = "ClusterPlot" /\ NamesCategories(obj.adata0, obj.args.list_clusters))
  => \A k \in 1..Len(obj.log) :
        obj.log[k].op = "scatter" =>
          LET pos == CatPos(adata, obj.log[k].label)
          IN /\ obj.log[k].c[1].num = pos
             /\ to_hex(obj.log[k].c[1]) = adata.uns_colors[1][pos + 1]

\* s is t with some elements left out
RECURSIVE IsSubseq(_, _)
IsSubseq(s, t) ==
  IF s = <<>> THEN TRUE
  ELSE IF t = <<>> THEN FALSE
  ELSE IF s[1] = t[1] THEN IsSubseq(Tail(s), Tail(t))
  ELSE IsSubseq(s, Tail(t))

IsPalette(a, colors) ==
  /\ colors # None
  /\ Len(colors[1]) = Len(Categories(a))
  /\ \A k \in 1..Len(colors[1]) : colors[1][k].hex.num = k - 1

C2_WitnessGenes ==
  Completed /\ obj.cls = "GenePlot" /\ caller.gene_symbols # obj.args.gene_symbols

\* C3: a constructor that completes has called _save_output once if fname is
\* given and never otherwise; the call is the last one made, after the
\* drawing and the cropping, also when show_plot is False and the figure was
\* closed before; a constructor that raises has not called it.
C3_SaveOnceAndLast ==
  Built =>
    LET n == CountOp(obj, "savefig")
        given == obj.args.fname # None
    IN /\ obj.exc # "" => n = 0
       /\ obj.exc = "" => n = (IF given THEN 1 ELSE 0)
       /\ n > 0 => /\ obj.log[Len(obj.log)].op = "savefig"
                   /\ obj.log[Len(obj.log)].label = obj.args.fname
                   /\ obj.args.crop => CountOp(obj, "set_xlim") = 1
                   /\ ~obj.args.show_plot => CountOp(obj, "close") = 1

\* a figure closed, drawn on, cropped and then saved
C3_Witness ==
  /\ Completed
  /\ obj.args.fname # None /\ ~obj.args.show_plot /\ obj.args.crop
  /\ obj.log[Len(obj.log)].op = "savefig"
  /\ \E k \in 1..Len(obj.log) : obj.log[k].op = "scatter"

\* C4: a call of example_bcba downloads exactly when the file is absent as it
\* starts; a call that returns leaves the file in place and has read its
\* result from it; so while the file stays, no later call downloads.
C4_Step ==
  disk'.calls = disk.calls + 1 =>
    /\ disk'.downloads = disk.downloads + (IF disk.file THEN 0 ELSE 1)
    /\ disk'.last.downloaded = ~disk.file
    /\ disk'.last.result = "adata" => disk'.file /\ disk'.last.read_from = "example_bcba.h5"
    /\ disk'.last.result # "adata" => ~disk.file /\ disk'.last.read_from = "nothing"
C4_DownloadOnlyIfAbsent == [][C4_Step]_vars

\* a later call found the file of an earlier one and did not download
C4_Witness ==
  /\ disk.calls >= 2 /\ disk.downloads = 1
  /\ disk.file /\ ~disk.last.downloaded /\ disk.last.result = "adata"

PointsOps == {"scatter", "griddata", "contourf"}

\* the rows of query_adata whose value is above the threshold (all without one)
Above(s) ==
  LET th == s.args.threshold
      keep == Where([k \in 1..Len(s.gene_values) |-> k],
                    LAMBDA k : \/ th = None
                               \/ s.gene_values[k][1] > th[1] * s.gene_values[k][2])
  IN Take(s.query_adata.spots, keep)

\* C5: in a GenePlot, every call that receives the points and the values gets
\* as many values as coordinates, both taken from the same rows in the same
\* order, and these rows are the spots whose value is above the threshold.
C5_ValuesMatchPoints ==
  (Built /\ obj.cls = "GenePlot")
  => \A k \in 1..Len(obj.log) :
        obj.log[k].op \in PointsOps =>
          /\ Len(obj.log[k].c) = Len(obj.log[k].x)
          /\ Len(obj.log[k].y) = Len(obj.log[k].x)
          /\ obj.log[k].cspots = obj.log[k].spots
          /\ obj.log[k].spots = Above(obj)

\* C6: a constructor that completes with crop true has set the x limits to
\* (min imagecol - margin, max imagecol + margin) and the y limits to
\* (max imagerow + margin, min imagerow - margin), after all drawing (only the
\* saving follows), so that with margin >= 0 every spot lies in the window;
\* with crop false the limits were never set.
C6_CropWindow ==
  Completed =>
    LET n == Len(adata.spatial)
        col(i) == adata.spatial[i][1] * adata.scale_factor
        row(i) == adata.spatial[i][2] * adata.scale_factor
        m == obj.args.margin
        first == CHOOSE k \in 1..Len(obj.log) : obj.log[k].op = "set_xlim"
    IN IF obj.args.crop
       THEN /\ obj.xlim # None /\ obj.ylim # None
            /\ \E i \in 1..n : obj.xlim[1][1] = col(i) - m
            /\ \E i \in 1..n : obj.xlim[1][2] = col(i) + m
            /\ \E i \in 1..n : obj.ylim[1][1] = row(i) + m
            /\ \E i \in 1..n : obj.ylim[1][2] = row(i) - m
            /\ \A i \in 1..n : /\ obj.xlim[1][1] <= col(i) - m /\ col(i) + m <= obj.xlim[1][2]
                               /\ obj.ylim[1][2] <= row(i) - m /\ row(i) + m <= obj.ylim[1][1]
            /\ \A i \in 1..n : /\ obj.xlim[1][1] <= col(i) /\ col(i) <= obj.xlim[1][2]
                               /\ obj.ylim[1][2] <= row(i) /\ row(i) <= obj.ylim[1][1]
            /\ CountOp(obj, "set_xlim") = 1
            /\ \A k \in (first + 1)..Len(obj.log) : obj.log[k].op \in {"set_ylim", "savefig"}
       ELSE /\ obj.xlim = None /\ obj.ylim = None
            /\ CountOp(obj, "set_xlim") = 0 /\ CountOp(obj, "set_ylim") = 0

\* a SubClusterPlot cropped with a margin after its points and labels were drawn
C6_Witness ==
  /\ Completed /\ obj.cls = "SubClusterPlot"
  /\ obj.args.crop /\ obj.args.margin > 0 /\ obj.xlim # None
  /\ CountOp(obj, "text") > 0

\* C7: asked for a list of two or more genes, _get_gene_expression leaves in
\* the list exactly the asked genes that are in the data, in their order, has
\* warned once per absent gene, raises ValueError when none is in the data,
\* and never looks up an absent gene (no KeyError).
C7_AbsentGenesFiltered ==
  (/\ Built /\ obj.cls = "GenePlot"
   /\ obj.args.gene_symbols.ty = "list" /\ Len(obj.args.gene_symbols.v) >= 2
   /\ CountOp(obj, "title") = 1)
  => LET asked == obj.args.gene_symbols.v
         IsGene(n) == n \in VarsOf(obj)
         IsAbsent(n) == n \notin VarsOf(obj)
         present == SelectSeq(asked, IsGene)
     IN /\ obj.gene_symbols.v = present
        /\ obj.warnings = SelectSeq(asked, IsAbsent)
        /\ present = <<>> => obj.exc = "ValueError"
        /\ obj.exc # "KeyError"

\* C8: GenePlot(gene_symbols=s) for a str s ends as GenePlot(gene_symbols=[s])
\* does, with the same values, whatever the title; and a CciPlot whose use_het
\* is a key of obsm completes with the values of adata.obsm[use_het].
C8_StrIsOneName ==
  /\ (Built /\ obj.cls = "GenePlot" /\ obj.args.gene_symbols.ty = "str")
     => LET listed == [obj.args EXCEPT !.gene_symbols = PyList(obj.args.gene_symbols.v)]
            other == GenePlot_init(NewSelf("GenePlot", listed, obj.adata0))
        IN obj.exc = other.exc /\ obj.gene_values = other.gene_values
  /\ (/\ Built /\ obj.cls = "CciPlot" /\ obj.args.use_het.ty = "str"
      /\ obj.args.use_het.v[1] \in ObsmKeys /\ CountOp(obj, "subplots") = 1)
     => /\ obj.exc = ""
        /\ obj.gene_values =
             [k \in 1..Len(obj.query_adata.spots) |->
                <<adata.het[obj.query_adata.spots[k]], 1>>]

\* the arguments the base constructor rejects, and the one GenePlot rejects
BadBase(s) ==
  \/ s.args.list_clusters.ty # "None" /\ s.args.use_label = None
  \/ s.args.use_label # None /\ s.args.use_label[1] \notin ObsColumns(s.adata0)
  \/ s.args.cmap \notin cmap_available
BadMethod(s) == s.cls = "GenePlot" /\ s.args.method \notin method_available

\* C9: each rejected argument (list_clusters without use_label, a use_label
\* that is no column of adata.obs, a cmap outside the list, a GenePlot method
\* outside {CumSum, NaiveMean}) makes the constructor fail with nothing
\* created: no figure, and no image, title or spot drawn.
C9_RejectedBeforeFigure ==
  (Built /\ (BadBase(obj) \/ BadMethod(obj))) => obj.exc # "" /\ obj.log = <<>>

\* C10: with use_label given, once the base constructor is through,
\* query_adata holds the spots (of adata.raw when use_raw is true) whose label
\* is str() of an element of list_clusters, in their order; None selects every
\* category; a value that is not a list gives what the list of it gives.
C10_SelectedSpots ==
  (Built /\ obj.args.use_label = Some(LabelCol))
  => LET lc == obj.args.list_clusters
         labels == obj.adata0.obs_label
         wanted == IF lc.ty = "None" THEN Range(labels)
                   ELSE {AsStr(lc.v[k]) : k \in 1..Len(lc.v)}
         IsWanted(i) == labels[i] \in wanted
         listed == [obj.args EXCEPT !.list_clusters = PyList(lc.v)]
         other == SpatialBasePlot_init(NewSelf(obj.cls, listed, obj.adata0))
     IN /\ CountOp(obj, "subplots") = 1 =>
             /\ obj.query_adata.spots = SelectSeq([i \in 1..Len(labels) |-> i], IsWanted)
             /\ obj.query_adata.raw = obj.args.use_raw
        /\ lc.ty = "scalar" =>
             /\ (CountOp(obj, "subplots") = 1) = (other.exc = "")
             /\ other.exc = "" => /\ obj.query_adata = other.query_adata
                                  /\ obj.list_clusters = other.list_clusters
                                  /\ obj.query_indexes = other.query_indexes

\* two clusters named out of order selected two of the spots of adata.raw
C10_Witness ==
  /\ Completed /\ obj.args.use_label = Some(LabelCol) /\ obj.args.use_raw
  /\ obj.args.list_clusters.ty = "list" /\ Len(obj.args.list_clusters.v) = 2
  /\ obj.query_indexes[1] > obj.query_indexes[2]
  /\ Len(obj.query_adata.spots) = 2 /\ Len(obj.adata0.obs_label) > 2

\* one cluster given as a bare value selected its spots
C10_WitnessScalar ==
  /\ Completed /\ obj.args.list_clusters.ty = "scalar"
  /\ Len(obj.query_adata.spots) < Len(obj.adata0.obs_label)

\* list_clusters as the base constructor reads it: the categories when None,
\* else str() of each element
AskedClusters(s) ==
  LET lc == s.args.list_clusters
  IN IF lc.ty = "None" THEN Categories(s.adata0)
     ELSE [k \in 1..Len(lc.v) |-> AsStr(lc.v[k])]

\* the number of categories of the label that sort before c
Before(a, c) ==
  LET pos(x) == CHOOSE k \in 1..Len(CatUniverse) : CatUniverse[k] = x
  IN Cardinality({x \in Range(a.obs_label) : pos(x) < pos(c)})

\* C11: with use_label given (and adata.raw present when use_raw is true), a
\* constructor whose requested clusters are all
\* categories of the label gets past _get_query_clusters_index with
\* query_indexes as long as list_clusters and, for every i, the category at
\* position query_indexes[i] equal to list_clusters[i]; a requested cluster
\* that is no category makes the constructor fail (IndexError) before
\* anything is selected or drawn.
C11_QueryIndexes ==
  (/\ Built /\ obj.args.use_label = Some(LabelCol)
   /\ obj.args.use_raw => obj.adata0.raw # None)
  => LET asked == AskedClusters(obj)
         known == \A k \in 1..Len(asked) : asked[k] \in Range(obj.adata0.obs_label)
     IN /\ known =>
             /\ asked # <<>> => CountOp(obj, "subplots") = 1
             /\ obj.list_clusters = Some(asked)
             /\ Len(obj.query_indexes) = Len(asked)
             /\ \A i \in 1..Len(asked) :
                   /\ obj.query_indexes[i] = Before(obj.adata0, asked[i])
                   /\ Categories(obj.adata0)[obj.query_indexes[i] + 1] = asked[i]
        /\ ~known =>
             /\ obj.exc = "IndexError"
             /\ obj.log = <<>> /\ obj.query_indexes = <<>>
             /\ obj.query_adata.spots = [i \in 1..Len(obj.adata0.obs_label) |-> i]

\* two clusters asked for against their category order were both found
C11_Witness ==
  /\ Built /\ obj.args.use_label = Some(LabelCol)
  /\ obj.args.list_clusters.ty = "list"
  /\ Len(obj.query_indexes) = 2 /\ obj.query_indexes[1] > obj.query_indexes[2]
  /\ Len(Categories(obj.adata0)) = 3

\* a cluster that is no category of the label was asked for
C11_WitnessUnknown ==
  /\ Built /\ obj.args.use_label = Some(LabelCol) /\ obj.exc = "IndexError"
  /\ \E k \in 1..Len(AskedClusters(obj)) :
        AskedClusters(obj)[k] \notin Range(obj.adata0.obs_label)

\* the spots of adata labelled c, in their order
SpotsOf(a, c) ==
  SelectSeq([i \in 1..Len(a.obs_label) |-> i], LAMBDA i : a.obs_label[i] = c)

\* the event is a text `label` at the centroid of the spots S moved by
\* (-dx, +dy) when the centroid's x is below `limit` and by (+dx, -dy) otherwise
LabelAtCentroid(e, a, S, label, limit, dx, dy) ==
  LET n == Len(S)
      sx == SumSeq([k \in 1..n |-> a.spatial[S[k]][1] * a.scale_factor])
      sy == SumSeq([k \in 1..n |-> a.spatial[S[k]][2] * a.scale_factor])
      mx == IF sx < limit * n THEN -dx ELSE dx
      my == IF sx < limit * n THEN dy ELSE -dy
  IN /\ e.op = "text" /\ e.label = label
     /\ e.x[1] * n = (sx + mx * n) * e.x[2]
     /\ e.y[1] * n = (sy + my * n) * e.y[2]

\* C12: a ClusterPlot with show_cluster_labels true, asked for distinct
\* categories of the label (one or several), completes and has placed exactly
\* one text per cluster of list_clusters, in their order, at the centroid of
\* the cluster's spots moved by (-100, +50) when the centroid's x is below
\* 1500 and by (+100, -50) otherwise.
C12_OneLabelPerCluster ==
  (/\ Built /\ obj.cls = "ClusterPlot"
   /\ obj.args.show_cluster_labels /\ ~obj.args.show_subcluster
   /\ NamesCategories(obj.adata0, obj.args.list_clusters)
   /\ AskedClusters(obj) # <<>>)
  => LET asked == AskedClusters(obj)
         texts == SelectSeq(obj.log, LAMBDA e : e.op = "text")
     IN /\ obj.exc = ""
        /\ Len(texts) = Len(asked)
        /\ \A k \in 1..Len(asked) :
              LabelAtCentroid(texts[k], obj.adata0, SpotsOf(obj.adata0, asked[k]),
                              asked[k], 1500, 100, 50)

\* the spots of adata labelled c whose sub-cluster label is sub
SubSpotsOf(a, c, sub) ==
  SelectSeq([i \in 1..Len(a.obs_label) |-> i],
            LAMBDA i : a.obs_label[i] = c /\ a.obs_sub[i] = sub)

\* every sub-cluster lies within one cluster
SubsNested(a) ==
  \A i, j \in 1..Len(a.obs_label) :
     a.obs_sub[i] = a.obs_sub[j] => a.obs_label[i] = a.obs_label[j]

\* C13: a ClusterPlot with show_subcluster true, asked for distinct categories
\* of the label, completes; for every cluster of list_clusters and every
\* sub-cluster of it with more than threshold_spots spots it has placed
\* exactly one text naming the sub-cluster, at the sub-cluster's own centroid
\* moved by (-100, +50) when that centroid's x is below 1500 and by
\* (+100, -50) otherwise, in a box of the parent cluster's colour; it has
\* placed no other text.  A cluster with a single sub-cluster is no exception.
C13_OneLabelPerSubCluster ==
  (/\ Built /\ obj.cls = "ClusterPlot"
   /\ obj.args.show_subcluster /\ ~obj.args.show_cluster_labels
   /\ obj.adata0.has_sub /\ SubsNested(obj.adata0)
   /\ NamesCategories(obj.adata0, obj.args.list_clusters)
   /\ AskedClusters(obj) # <<>>)
  => LET a == obj.adata0
         asked == AskedClusters(obj)
         texts == SelectSeq(obj.log, LAMBDA e : e.op = "text")
         due == {<<k, sub>> \in (1..Len(asked)) \X Range(a.obs_sub) :
                   Len(SubSpotsOf(a, asked[k], sub)) > obj.args.threshold_spots}
     IN /\ obj.exc = ""
        /\ Len(texts) = Cardinality(due)
        /\ \A d \in due :
              Cardinality({n \in 1..Len(texts) :
                 /\ LabelAtCentroid(texts[n], a, SubSpotsOf(a, asked[d[1]], d[2]),
                                    d[2], 1500, 100, 50)
                 /\ texts[n].c = <<obj.adata.uns_colors[1][Before(a, asked[d[1]]) + 1]>>})
              = 1

====
